---- MODULE Spec2Model ----
(***************************************************************************)
(* Model of the payment-instruction engine                                 *)
(* (src/services/payment-processor/parse-instruction.js).                  *)
(*                                                                         *)
(* A JavaScript string is a sequence of one-character strings, so that     *)
(* splitting, upper-casing, digit checks, edit distance and the            *)
(* lexicographic date comparison are computed character by character.      *)
(* Token indices are the source's 0-based indices; At(tokens, i) reads     *)
(* tokens[i] and yields Undefined past the end, as a JS array does.        *)
(***************************************************************************)
EXTENDS Integers, Sequences, FiniteSets, TLC

\* instruction, accounts: the request body; today: the UTC date of the clock;
\* reqTokens, reqParse, response: the locals tokens, parseResult and response
\* of parseInstruction; pc: where the handler stands.
\* strA, strB, distance: the arguments and the result of a call of
\* levenshteinDistance taken on its own (distance -1: not yet called).
VARIABLES instruction, accounts, today, reqTokens, reqParse, response, pc,
          strA, strB, distance

engineVars == <<instruction, accounts, today, reqTokens, reqParse, response, pc>>

distanceVars == <<strA, strB, distance>>

vars == <<engineVars, distanceVars>>

(***************************************************************************)
(* JavaScript values that are not strings or numbers.                      *)
(***************************************************************************)
Null == <<"null">>
Undefined == <<"undefined">>

IsString(v) == v # Null /\ v # Undefined

(***************************************************************************)
(* Characters: the printable ASCII range in code order, from the space    *)
(* (32); the double quote, backslash and backtick are spelled out.         *)
(***************************************************************************)
Ascii ==
  << " ", "!", "dquote", "#", "$", "%", "&", "'", "(", ")", "*", "+", ",", "-", ".", "/",
     "0", "1", "2", "3", "4", "5", "6", "7", "8", "9", ":", ";", "<", "=", ">", "?",
     "@", "A", "B", "C", "D", "E", "F", "G", "H", "I", "J", "K", "L", "M", "N", "O",
     "P", "Q", "R", "S", "T", "U", "V", "W", "X", "Y", "Z", "[", "bslash", "]", "^", "_",
     "btick", "a", "b", "c", "d", "e", "f", "g", "h", "i", "j", "k", "l", "m", "n", "o",
     "p", "q", "r", "s", "t", "u", "v", "w", "x", "y", "z", "{", "|", "}", "~" >>

AsciiCode ==
  [c \in {Ascii[i] : i \in 1..Len(Ascii)} |->
     31 + (CHOOSE i \in 1..Len(Ascii) : Ascii[i] = c)]

CharCode(c) == AsciiCode[c]

CharLeq(c, d) == CharCode(c) <= CharCode(d)

\* String.prototype.toUpperCase on one character, then on a string.
UpperChar(c) ==
  IF CharLeq("a", c) /\ CharLeq(c, "z") THEN Ascii[CharCode(c) - 32 - 31] ELSE c

toUpperCase(s) == [i \in 1..Len(s) |-> UpperChar(s[i])]

\* The < of two strings: lexicographic by character code.
RECURSIVE StrLess(_, _)
StrLess(s, t) ==
  IF t = <<>> THEN FALSE
  ELSE IF s = <<>> THEN TRUE
  ELSE IF Head(s) = Head(t) THEN StrLess(Tail(s), Tail(t))
  ELSE CharCode(Head(s)) < CharCode(Head(t))

\* String.prototype.trim: a space is the only whitespace of the alphabet.
RECURSIVE TrimLeft(_)
TrimLeft(s) ==
  IF s # <<>> /\ Head(s) = " " THEN TrimLeft(Tail(s)) ELSE s

RECURSIVE TrimRight(_)
TrimRight(s) ==
  IF s # <<>> /\ s[Len(s)] = " " THEN TrimRight(SubSeq(s, 1, Len(s) - 1)) ELSE s

trim(s) == TrimRight(TrimLeft(s))

\* String.prototype.split on a space: the pieces between single spaces, empty ones kept.
RECURSIVE SplitFrom(_, _, _)
SplitFrom(s, i, piece) ==
  IF i > Len(s) THEN <<piece>>
  ELSE IF s[i] = " " THEN <<piece>> \o SplitFrom(s, i + 1, <<>>)
  ELSE SplitFrom(s, i + 1, Append(piece, s[i]))

split(s) == SplitFrom(s, 1, <<>>)

\* parseInt(s, 10) of a digit string.
DigitValue(c) == CharCode(c) - CharCode("0")

RECURSIVE parseInt(_)
parseInt(s) ==
  IF s = <<>> THEN 0
  ELSE 10 * parseInt(SubSeq(s, 1, Len(s) - 1)) + DigitValue(s[Len(s)])

At(tokens, i) == IF i < Len(tokens) THEN tokens[i + 1] ELSE Undefined

Min2(x, y) == IF x <= y THEN x ELSE y

(***************************************************************************)
(* CONSTANTS of the source.                                                *)
(***************************************************************************)
NGN == <<"N", "G", "N">>
USD == <<"U", "S", "D">>
GBP == <<"G", "B", "P">>
GHS == <<"G", "H", "S">>

ALLOWED_CURRENCIES == {NGN, USD, GBP, GHS}

DEBIT == <<"D", "E", "B", "I", "T">>
CREDIT == <<"C", "R", "E", "D", "I", "T">>
FROM == <<"F", "R", "O", "M">>
TO == <<"T", "O">>
ACCOUNT == <<"A", "C", "C", "O", "U", "N", "T">>
FOR == <<"F", "O", "R">>
ON == <<"O", "N">>

TRANSACTION_TYPES == {DEBIT, CREDIT}

STATUS_CODES ==
  [ SUCCESS |-> "AP00", PENDING |-> "AP02", INSUFFICIENT_FUNDS |-> "AC01",
    SAME_ACCOUNT |-> "AC02", ACCOUNT_NOT_FOUND |-> "AC03",
    INVALID_ACCOUNT_ID |-> "AC04", CURRENCY_MISMATCH |-> "CU01",
    UNSUPPORTED_CURRENCY |-> "CU02", INVALID_DATE |-> "DT01",
    INVALID_AMOUNT |-> "AM01", MISSING_KEYWORD |-> "SY01",
    INVALID_KEYWORD |-> "SY02", MALFORMED |-> "SY03" ]

INSTRUCTION_PATTERNS(type) ==
  IF type = DEBIT
  THEN << [idx |-> 3, keyword |-> FROM], [idx |-> 4, keyword |-> ACCOUNT],
          [idx |-> 6, keyword |-> FOR], [idx |-> 7, keyword |-> CREDIT],
          [idx |-> 8, keyword |-> TO], [idx |-> 9, keyword |-> ACCOUNT] >>
  ELSE << [idx |-> 3, keyword |-> TO], [idx |-> 4, keyword |-> ACCOUNT],
          [idx |-> 6, keyword |-> FOR], [idx |-> 7, keyword |-> DEBIT],
          [idx |-> 8, keyword |-> FROM], [idx |-> 9, keyword |-> ACCOUNT] >>

(***************************************************************************)
(* STRING UTILITIES                                                        *)
(***************************************************************************)
\* One row of the edit-distance matrix, filled left to right from the row above.
\* LevRow charging a substitution even when the two characters are equal.
RECURSIVE LevRow_NoFreeMatch(_, _, _, _, _)
LevRow_NoFreeMatch(a, b, i, prev, row) ==
  LET j == Len(row) IN
  IF j > Len(b) THEN row
  ELSE LET cell == Min2(Min2(prev[j + 1] + 1, row[j] + 1), prev[j] + 1)
       IN LevRow_NoFreeMatch(a, b, i, prev, Append(row, cell))

RECURSIVE LevRow(_, _, _, _, _)
LevRow(a, b, i, prev, row) ==
  LET j == Len(row) IN
  IF j > Len(b) THEN row
  ELSE LET cost == IF a[i] = b[j] THEN 0 ELSE 1
           cell == Min2(Min2(prev[j + 1] + 1, row[j] + 1), prev[j] + cost)
       IN LevRow(a, b, i, prev, Append(row, cell))

RECURSIVE LevRows(_, _, _, _)
LevRows(a, b, i, prev) ==
  IF i > Len(a) THEN prev
  ELSE LevRows(a, b, i + 1, LevRow(a, b, i, prev, <<i>>))

levenshteinDistance(a, b) ==
  IF a = b THEN 0
  ELSE IF Len(a) = 0 THEN Len(b)
  ELSE IF Len(b) = 0 THEN Len(a)
  ELSE LevRows(a, b, 1, [j \in 1..(Len(b) + 1) |-> j - 1])[Len(b) + 1]

tokenize(instr) ==
  LET pieces == split(instr)
      trimmed == [k \in 1..Len(pieces) |-> trim(pieces[k])]
  IN SelectSeq(trimmed, LAMBDA token : Len(token) > 0)

uppercaseTokens(tokens) == [k \in 1..Len(tokens) |-> toUpperCase(tokens[k])]

(***************************************************************************)
(* Messages: a status_reason is the sequence of the parts of the source's  *)
(* template string, literal text and interpolated values kept apart.       *)
(* PaymentMessages (module @app/messages/payment) is named, not expanded.  *)
(***************************************************************************)
Lit(text) == [kind |-> "lit", lit |-> text, str |-> <<>>, num |-> 0]
Str(value) == [kind |-> "str", lit |-> "", str |-> value, num |-> 0]
Num(value) == [kind |-> "num", lit |-> "", str |-> <<>>, num |-> value]

\* Array.prototype.join over message fragments.
RECURSIVE join(_, _)
join(fragments, sep) ==
  IF Len(fragments) = 0 THEN <<>>
  ELSE IF Len(fragments) = 1 THEN fragments[1]
  ELSE fragments[1] \o <<Lit(sep)>> \o join(Tail(fragments), sep)

(***************************************************************************)
(* VALIDATION UTILITIES                                                    *)
(***************************************************************************)
IsDigit(char) == CharLeq("0", char) /\ CharLeq(char, "9")

validateDigits(value) ==
  IF ~IsString(value)
  THEN [valid |-> FALSE, error |-> <<Lit("Amount must be a string")>>]
  ELSE IF Len(value) = 0
  THEN [valid |-> FALSE, error |-> <<Lit("Amount must not be empty")>>]
  ELSE LET bad == {i \in 1..Len(value) : ~IsDigit(value[i])} IN
       IF bad = {} THEN [valid |-> TRUE, error |-> <<>>]
       ELSE LET first == CHOOSE i \in bad : \A k \in bad : i <= k
                char == value[first]
            IN [valid |-> FALSE,
                error |-> IF char = "-"
                          THEN <<Lit("Amount cannot contain negative sign")>>
                          ELSE IF char = "."
                          THEN <<Lit("Amount cannot contain decimal point")>>
                          ELSE <<Lit("Invalid character '"), Str(<<char>>),
                                 Lit("' in amount")>>]

isAllowedChar(char) ==
  \/ (CharLeq("0", char) /\ CharLeq(char, "9"))
  \/ (CharLeq("A", char) /\ CharLeq(char, "Z"))
  \/ (CharLeq("a", char) /\ CharLeq(char, "z"))
  \/ char = "-"
  \/ char = "."
  \/ char = "@"

validateAccountId(id) ==
  IF ~IsString(id)
  THEN [valid |-> FALSE, error |-> <<Lit("Account id must be a string")>>]
  ELSE IF Len(id) = 0
  THEN [valid |-> FALSE, error |-> <<Lit("Account id must not be empty")>>]
  ELSE LET bad == {i \in 1..Len(id) : ~isAllowedChar(id[i])} IN
       IF bad = {} THEN [valid |-> TRUE, error |-> <<>>]
       ELSE LET first == CHOOSE i \in bad : \A k \in bad : i <= k
            IN [valid |-> FALSE,
                error |-> <<Lit("Invalid character '"), Str(<<id[first]>>),
                            Lit("' in account id")>>]

\* The calendar behind new Date(Date.UTC(y, m - 1, d)): a day past the end of
\* the month rolls over, and a year below 100 is taken as 1900 + year.
IsLeapYear(y) == (y % 4 = 0 /\ y % 100 # 0) \/ y % 400 = 0

DaysInMonth(y, m) ==
  IF m = 2 THEN (IF IsLeapYear(y) THEN 29 ELSE 28)
  ELSE IF m \in {4, 6, 9, 11} THEN 30 ELSE 31

DateRoundTrips(y, m, d) == y >= 100 /\ d <= DaysInMonth(y, m)

validateDateFormat(dateString) ==
  LET formatError == <<Lit("PaymentMessages.INVALID_DATE_FORMAT")>> IN
  IF ~IsString(dateString) \/ Len(dateString) # 10
  THEN [valid |-> FALSE, error |-> formatError, value |-> Null]
  ELSE IF dateString[5] # "-" \/ dateString[8] # "-"
  THEN [valid |-> FALSE, error |-> formatError, value |-> Null]
  ELSE
    LET year == SubSeq(dateString, 1, 4)
        month == SubSeq(dateString, 6, 7)
        day == SubSeq(dateString, 9, 10)
    IN
    IF ~validateDigits(year).valid \/ ~validateDigits(month).valid
         \/ ~validateDigits(day).valid
    THEN [valid |-> FALSE, error |-> formatError, value |-> Null]
    ELSE
      LET yearInt == parseInt(year)
          monthInt == parseInt(month)
          dayInt == parseInt(day)
      IN
      IF monthInt < 1 \/ monthInt > 12
      THEN [valid |-> FALSE, value |-> Null, error |->
             <<Lit("Invalid month, month must be between 1 and 12 in YYYY-MM-DD")>>]
      ELSE IF dayInt < 1 \/ dayInt > 31
      THEN [valid |-> FALSE, value |-> Null, error |->
             <<Lit("Invalid day, day cannot be greater than 31 in YYYY-MM-DD")>>]
      ELSE IF ~DateRoundTrips(yearInt, monthInt, dayInt)
      THEN [valid |-> FALSE, error |-> formatError, value |-> Null]
      ELSE [valid |-> TRUE, error |-> <<>>, value |-> dateString]

(***************************************************************************)
(* KEYWORD VALIDATION                                                      *)
(***************************************************************************)
\* isNearMatch with the threshold one edit wider.
isNearMatch_WithinTwo(a, b) == levenshteinDistance(a, b) <= 2

isNearMatch(a, b) == levenshteinDistance(a, b) <= 1

\* validateKeywords reporting the mismatches before the missing keywords.
validateKeywords_MismatchedFirst(tokens, pattern) ==
  LET missing == SelectSeq(pattern, LAMBDA p : Len(tokens) <= p.idx)
      mismatched ==
        SelectSeq(pattern,
                  LAMBDA p : Len(tokens) > p.idx /\ At(tokens, p.idx) # p.keyword)
  IN
  IF Len(mismatched) > 0
  THEN [valid |-> FALSE, code |-> STATUS_CODES.INVALID_KEYWORD,
        message |-> <<Lit("Invalid keyword(s): ")>>]
  ELSE IF Len(missing) > 0
  THEN [valid |-> FALSE, code |-> STATUS_CODES.MISSING_KEYWORD,
        message |-> <<Lit("Missing keyword(s): ")>>]
  ELSE [valid |-> TRUE, code |-> "", message |-> <<>>]

validateKeywords(tokens, pattern) ==
  LET missing == SelectSeq(pattern, LAMBDA p : Len(tokens) <= p.idx)
      mismatched ==
        SelectSeq(pattern,
                  LAMBDA p : Len(tokens) > p.idx /\ At(tokens, p.idx) # p.keyword)
      note(p) ==
        LET found == At(tokens, p.idx)
            base == <<Lit("expected '"), Str(p.keyword), Lit("' but found '"),
                      Str(found), Lit("'")>>
        IN IF Len(found) > 0 /\ isNearMatch(p.keyword, found)
           THEN base \o <<Lit(" (did you mean '"), Str(p.keyword), Lit("'?)")>>
           ELSE base
  IN
  IF Len(missing) > 0
  THEN [valid |-> FALSE, code |-> STATUS_CODES.MISSING_KEYWORD,
        message |-> <<Lit("Missing keyword(s): ")>>
                      \o join([k \in 1..Len(missing) |-> <<Str(missing[k].keyword)>>],
                              ", ")]
  ELSE IF Len(mismatched) > 0
  THEN [valid |-> FALSE, code |-> STATUS_CODES.INVALID_KEYWORD,
        message |-> <<Lit("Invalid keyword(s): ")>>
                      \o join([k \in 1..Len(mismatched) |-> note(mismatched[k])], "; ")]
  ELSE [valid |-> TRUE, code |-> "", message |-> <<>>]

(***************************************************************************)
(* INSTRUCTION PARSING                                                     *)
(***************************************************************************)
\* obj.key of an object that may lack the key, and the object spread.
Get(obj, key) == IF key \in DOMAIN obj THEN obj[key] ELSE Undefined

Spread(first, second) ==
  [key \in (DOMAIN first) \cup (DOMAIN second) |->
     IF key \in DOMAIN second THEN second[key] ELSE first[key]]

extractTokenPositions(type, tokens) ==
  LET isDebit == type = DEBIT
      fromIdx == IF isDebit THEN 5 ELSE 10
      toIdx == IF isDebit THEN 10 ELSE 5
      onIdx == 11
      dateIdx == onIdx + 1
      sawON == IsString(At(tokens, onIdx)) /\ toUpperCase(At(tokens, onIdx)) = ON
  IN [ amount |-> At(tokens, 1),
       currency |-> At(tokens, 2),
       fromAccount |-> At(tokens, fromIdx),
       toAccount |-> At(tokens, toIdx),
       dateToken |-> IF sawON /\ Len(tokens) > dateIdx THEN At(tokens, dateIdx)
                     ELSE Null,
       hasIncompleteDate |-> (Len(tokens) = dateIdx /\ sawON),
       sawONKeyword |-> IF Len(tokens) < 12 THEN TRUE ELSE sawON ]

parseAmount(amountToken) ==
  LET validation == validateDigits(amountToken) IN
  IF ~validation.valid
  THEN [valid |-> FALSE, code |-> STATUS_CODES.INVALID_AMOUNT, value |-> 0,
        message |-> <<Lit("PaymentMessages.INVALID_AMOUNT"), Lit(": ")>>
                      \o validation.error]
  ELSE LET amount == parseInt(amountToken) IN
       IF amount <= 0
       THEN [valid |-> FALSE, code |-> STATUS_CODES.INVALID_AMOUNT, value |-> 0,
             message |-> <<Lit("PaymentMessages.INVALID_AMOUNT")>>]
       ELSE [valid |-> TRUE, code |-> "", message |-> <<>>, value |-> amount]

parseCurrency(currencyToken) ==
  IF ~IsString(currencyToken) \/ Len(currencyToken) = 0
  THEN [valid |-> FALSE, code |-> STATUS_CODES.UNSUPPORTED_CURRENCY, value |-> Null,
        message |-> <<Lit("PaymentMessages.UNSUPPORTED_CURRENCY"),
                      Lit(", but found '"), Str(currencyToken), Lit("'")>>]
  ELSE LET currency == toUpperCase(currencyToken) IN
       IF currency \notin ALLOWED_CURRENCIES
       THEN [valid |-> FALSE, code |-> STATUS_CODES.UNSUPPORTED_CURRENCY,
             value |-> Null,
             message |-> <<Lit("PaymentMessages.UNSUPPORTED_CURRENCY"),
                           Lit(", but found '"), Str(currency), Lit("'")>>]
       ELSE [valid |-> TRUE, code |-> "", message |-> <<>>, value |-> currency]

parseAccounts(fromId, toId, type) ==
  LET fromValidation == validateAccountId(fromId)
      toValidation == validateAccountId(toId)
  IN
  IF ~fromValidation.valid
  THEN [valid |-> FALSE, code |-> STATUS_CODES.INVALID_ACCOUNT_ID,
        debitAccount |-> Null, creditAccount |-> Null,
        message |-> <<Lit("PaymentMessages.INVALID_ACCOUNT_ID"), Lit(" (from: ")>>
                      \o fromValidation.error \o <<Lit(")")>>]
  ELSE IF ~toValidation.valid
  THEN [valid |-> FALSE, code |-> STATUS_CODES.INVALID_ACCOUNT_ID,
        debitAccount |-> Null, creditAccount |-> Null,
        message |-> <<Lit("PaymentMessages.INVALID_ACCOUNT_ID"), Lit(" (to: ")>>
                      \o toValidation.error \o <<Lit(")")>>]
  ELSE [valid |-> TRUE, code |-> "", message |-> <<>>,
        debitAccount |-> IF type = DEBIT THEN fromId ELSE toId,
        creditAccount |-> IF type = DEBIT THEN toId ELSE fromId]

parseExecutionDate(positions) ==
  IF positions.hasIncompleteDate /\ positions.dateToken = Null
  THEN [valid |-> FALSE, code |-> STATUS_CODES.INVALID_DATE, value |-> Null,
        message |->
          <<Lit("No date provided after 'ON' keyword: date format is YYYY-MM-DD")>>]
  ELSE IF ~positions.sawONKeyword
  THEN IF positions.dateToken # Null
       THEN [valid |-> FALSE, code |-> STATUS_CODES.INVALID_DATE, value |-> Null,
             message |->
               <<Lit("Date provided without 'ON' keyword: date format is YYYY-MM-DD")>>]
       ELSE [valid |-> FALSE, code |-> STATUS_CODES.MISSING_KEYWORD, value |-> Null,
             message |-> <<Lit("PaymentMessages.MISSING_KEYWORD"), Lit(": 'ON'")>>]
  ELSE IF positions.dateToken = Null \/ Len(positions.dateToken) = 0
  THEN [valid |-> TRUE, code |-> "", message |-> <<>>, value |-> Null]
  ELSE LET dateValidation == validateDateFormat(positions.dateToken) IN
       IF ~dateValidation.valid
       THEN [valid |-> FALSE, code |-> STATUS_CODES.INVALID_DATE, value |-> Null,
             message |-> dateValidation.error]
       ELSE [valid |-> TRUE, code |-> "", message |-> <<>>,
             value |-> dateValidation.value]

\* The failure object of parseInstructionTokens: {valid, type, error}.
ParseFailure(type, result) ==
  [valid |-> FALSE, type |-> type,
   error |-> [code |-> result.code, message |-> result.message]]

parseInstructionTokens(tokens, uppercaseTransactionTokens) ==
  LET type == At(uppercaseTransactionTokens, 0) IN
  IF type \notin TRANSACTION_TYPES THEN [valid |-> FALSE]
  ELSE
    LET keywordValidation ==
          validateKeywords(uppercaseTransactionTokens, INSTRUCTION_PATTERNS(type))
        positions == extractTokenPositions(type, tokens)
        dateResult == parseExecutionDate(positions)
        amountResult == parseAmount(positions.amount)
        currencyResult == parseCurrency(positions.currency)
        accountsResult ==
          parseAccounts(positions.fromAccount, positions.toAccount, type)
    IN
    IF ~keywordValidation.valid THEN ParseFailure(type, keywordValidation)
    ELSE IF ~dateResult.valid THEN ParseFailure(type, dateResult)
    ELSE IF ~amountResult.valid THEN ParseFailure(type, amountResult)
    ELSE IF ~currencyResult.valid THEN ParseFailure(type, currencyResult)
    ELSE IF ~accountsResult.valid THEN ParseFailure(type, accountsResult)
    ELSE [ valid |-> TRUE,
           type |-> type,
           amount |-> amountResult.value,
           currency |-> currencyResult.value,
           debitAccount |-> accountsResult.debitAccount,
           creditAccount |-> accountsResult.creditAccount,
           executeBy |-> dateResult.value ]

(***************************************************************************)
(* ACCOUNT OPERATIONS                                                      *)
(***************************************************************************)
\* The null that findAccountById returns when no account matches.
NullAccount == [null |-> TRUE]

findAccountById(accts, accountId) ==
  LET hits == {i \in 1..Len(accts) : accts[i].id = accountId} IN
  IF hits = {} THEN NullAccount
  ELSE accts[CHOOSE i \in hits : \A k \in hits : i <= k]

createAccountSnapshot(account) ==
  [ id |-> account.id,
    balance |-> account.balance,
    balance_before |-> account.balance,
    currency |-> toUpperCase(account.currency) ]

getRelevantAccounts(accts, debitAccountId, creditAccountId) ==
  LET debitAccount == findAccountById(accts, debitAccountId)
      creditAccount == findAccountById(accts, creditAccountId)
      first == IF debitAccount # NullAccount
               THEN <<createAccountSnapshot(debitAccount)>> ELSE <<>>
      second == IF creditAccount # NullAccount /\ creditAccount.id # debitAccountId
                THEN <<createAccountSnapshot(creditAccount)>> ELSE <<>>
  IN [accounts |-> first \o second,
      debitAccount |-> debitAccount,
      creditAccount |-> creditAccount]

\* updateAccountBalances without the credit leg.
updateAccountBalances_DebitOnly(accountSnapshots, debitAccountId, creditAccountId, amount) ==
  [k \in 1..Len(accountSnapshots) |->
     LET account == accountSnapshots[k] IN
     IF account.id = debitAccountId
     THEN [account EXCEPT !.balance = account.balance_before - amount]
     ELSE account]

updateAccountBalances(accountSnapshots, debitAccountId, creditAccountId, amount) ==
  [k \in 1..Len(accountSnapshots) |->
     LET account == accountSnapshots[k] IN
     IF account.id = debitAccountId
     THEN [account EXCEPT !.balance = account.balance_before - amount]
     ELSE IF account.id = creditAccountId
     THEN [account EXCEPT !.balance = account.balance_before + amount]
     ELSE account]

(***************************************************************************)
(* BUSINESS RULE VALIDATION                                                *)
(***************************************************************************)
validateAccountsExist(debitAccount, creditAccount, parsedData) ==
  IF debitAccount = NullAccount /\ creditAccount = NullAccount
  THEN [ valid |-> FALSE, status |-> "failed",
         status_code |-> STATUS_CODES.ACCOUNT_NOT_FOUND,
         status_reason |-> <<Lit("PaymentMessages.ACCOUNT_NOT_FOUND")>>,
         accounts |-> <<>> ]
  ELSE IF debitAccount = NullAccount
  THEN [ valid |-> FALSE, status |-> "failed",
         status_code |-> STATUS_CODES.ACCOUNT_NOT_FOUND,
         status_reason |-> <<Lit("PaymentMessages.ACCOUNT_NOT_FOUND"),
                             Lit(": debit account "), Str(parsedData.debitAccount),
                             Lit(" not found")>>,
         accounts |-> <<createAccountSnapshot(creditAccount)>> ]
  ELSE IF creditAccount = NullAccount
  THEN [ valid |-> FALSE, status |-> "failed",
         status_code |-> STATUS_CODES.ACCOUNT_NOT_FOUND,
         status_reason |-> <<Lit("PaymentMessages.ACCOUNT_NOT_FOUND"),
                             Lit(": credit account "), Str(parsedData.creditAccount),
                             Lit(" not found")>>,
         accounts |-> <<createAccountSnapshot(debitAccount)>> ]
  ELSE [valid |-> TRUE]

validateCurrencyMatch(debitAccount, creditAccount, currency) ==
  LET debitCurrency == toUpperCase(debitAccount.currency)
      creditCurrency == toUpperCase(creditAccount.currency)
  IN
  IF debitCurrency # creditCurrency
  THEN [valid |-> FALSE, code |-> STATUS_CODES.CURRENCY_MISMATCH,
        message |-> <<Lit("PaymentMessages.CURRENCY_MISMATCH"),
                      Lit(": debit account is "), Str(debitCurrency),
                      Lit(", credit account is "), Str(creditCurrency)>>]
  ELSE IF currency \notin ALLOWED_CURRENCIES
  THEN [valid |-> FALSE, code |-> STATUS_CODES.UNSUPPORTED_CURRENCY,
        message |-> <<Lit("PaymentMessages.UNSUPPORTED_CURRENCY")>>]
  ELSE IF currency # debitCurrency
  THEN [valid |-> FALSE, code |-> STATUS_CODES.CURRENCY_MISMATCH,
        message |-> <<Lit("PaymentMessages.CURRENCY_MISMATCH"),
                      Lit(": Instruction currency "), Str(currency),
                      Lit(" does not match debit account currency "),
                      Str(debitCurrency)>>]
  ELSE [valid |-> TRUE, code |-> "", message |-> <<>>]

validateDifferentAccounts(debitAccountId, creditAccountId) ==
  IF debitAccountId = creditAccountId
  THEN [valid |-> FALSE, code |-> STATUS_CODES.SAME_ACCOUNT,
        message |-> <<Lit("PaymentMessages.SAME_ACCOUNT_ERROR"),
                      Lit(": both accounts are "), Str(debitAccountId)>>]
  ELSE [valid |-> TRUE, code |-> "", message |-> <<>>]

validateSufficientFunds(debitAccount, amount) ==
  IF debitAccount.balance < amount
  THEN [valid |-> FALSE, code |-> STATUS_CODES.INSUFFICIENT_FUNDS,
        message |-> <<Lit("PaymentMessages.INSUFFICIENT_FUNDS"),
                      Lit(": available balance is "), Num(debitAccount.balance),
                      Lit(" and required is "), Num(amount)>>]
  ELSE [valid |-> TRUE, code |-> "", message |-> <<>>]

\* The UTC calendar date of the clock, as YYYY-MM-DD.
getTodayUTC == today

\* determineTransactionStatus deferring an instruction dated today as well.
determineTransactionStatus_TodayPending(executeBy) ==
  IF executeBy = Null
  THEN [ status |-> "successful", status_code |-> STATUS_CODES.SUCCESS,
         status_reason |-> <<Lit("PaymentMessages.TRANSACTION_SUCCESSFUL")>> ]
  ELSE IF ~StrLess(executeBy, getTodayUTC)
  THEN [ status |-> "pending", status_code |-> STATUS_CODES.PENDING,
         status_reason |-> <<Lit("PaymentMessages.TRANSACTION_PENDING")>> ]
  ELSE [ status |-> "successful", status_code |-> STATUS_CODES.SUCCESS,
         status_reason |-> <<Lit("PaymentMessages.TRANSACTION_SUCCESSFUL")>> ]

determineTransactionStatus(executeBy) ==
  IF executeBy = Null
  THEN [ status |-> "successful", status_code |-> STATUS_CODES.SUCCESS,
         status_reason |-> <<Lit("PaymentMessages.TRANSACTION_SUCCESSFUL")>> ]
  ELSE IF StrLess(getTodayUTC, executeBy)
  THEN [ status |-> "pending", status_code |-> STATUS_CODES.PENDING,
         status_reason |-> <<Lit("PaymentMessages.TRANSACTION_PENDING")>> ]
  ELSE [ status |-> "successful", status_code |-> STATUS_CODES.SUCCESS,
         status_reason |-> <<Lit("PaymentMessages.TRANSACTION_SUCCESSFUL")>> ]

(***************************************************************************)
(* RESPONSE BUILDERS                                                       *)
(***************************************************************************)
\* buildUnparseableResponse carrying the missing-keyword code.
buildUnparseableResponse_MissingKeywordCode ==
  [ type |-> Null, amount |-> Null, currency |-> Null, debit_account |-> Null,
    credit_account |-> Null, execute_by |-> Null, status |-> "failed",
    status_reason |-> <<Lit("PaymentMessages.MALFORMED_INSTRUCTION")>>,
    status_code |-> STATUS_CODES.MISSING_KEYWORD,
    accounts |-> <<>> ]

buildUnparseableResponse ==
  [ type |-> Null, amount |-> Null, currency |-> Null, debit_account |-> Null,
    credit_account |-> Null, execute_by |-> Null, status |-> "failed",
    status_reason |-> <<Lit("PaymentMessages.MALFORMED_INSTRUCTION")>>,
    status_code |-> STATUS_CODES.MALFORMED,
    accounts |-> <<>> ]

\* parsedData.key || null, for the string fields and for the amount.
OrNull(obj, key) ==
  IF key \in DOMAIN obj /\ IsString(obj[key]) /\ Len(obj[key]) > 0
  THEN obj[key] ELSE Null

AmountOrNull(obj) ==
  IF "amount" \in DOMAIN obj /\ obj.amount # 0 THEN obj.amount ELSE Null

buildErrorResponse(parsedData, error, accts) ==
  [ type |-> OrNull(parsedData, "type"),
    amount |-> AmountOrNull(parsedData),
    currency |-> OrNull(parsedData, "currency"),
    debit_account |-> OrNull(parsedData, "debitAccount"),
    credit_account |-> OrNull(parsedData, "creditAccount"),
    execute_by |-> OrNull(parsedData, "executeBy"),
    status |-> "failed",
    status_reason |-> error.message,
    status_code |-> error.code,
    accounts |-> accts ]

\* buildSuccessResponse applying the balance deltas whatever the status.
buildSuccessResponse_AlwaysApplied(parsedData, statusInfo, accountSnapshots) ==
  [ type |-> parsedData.type,
    amount |-> parsedData.amount,
    currency |-> parsedData.currency,
    debit_account |-> parsedData.debitAccount,
    credit_account |-> parsedData.creditAccount,
    execute_by |-> parsedData.executeBy,
    status |-> statusInfo.status,
    status_reason |-> statusInfo.status_reason,
    status_code |-> statusInfo.status_code,
    accounts |-> updateAccountBalances(accountSnapshots, parsedData.debitAccount,
                                       parsedData.creditAccount, parsedData.amount) ]

buildSuccessResponse(parsedData, statusInfo, accountSnapshots) ==
  LET finalAccounts ==
        IF statusInfo.status = "successful"
        THEN updateAccountBalances(accountSnapshots, parsedData.debitAccount,
                                   parsedData.creditAccount, parsedData.amount)
        ELSE accountSnapshots
  IN [ type |-> parsedData.type,
       amount |-> parsedData.amount,
       currency |-> parsedData.currency,
       debit_account |-> parsedData.debitAccount,
       credit_account |-> parsedData.creditAccount,
       execute_by |-> parsedData.executeBy,
       status |-> statusInfo.status,
       status_reason |-> statusInfo.status_reason,
       status_code |-> statusInfo.status_code,
       accounts |-> finalAccounts ]

(***************************************************************************)
(* MAIN PROCESSING                                                         *)
(***************************************************************************)
\* processBusinessRules checking the funds before the self-transfer rule.
processBusinessRules_FundsBeforeSelfTransfer(parsedData, allAccounts) ==
  LET relevant == getRelevantAccounts(allAccounts, parsedData.debitAccount,
                                      parsedData.creditAccount)
      debitAccount == relevant.debitAccount
      creditAccount == relevant.creditAccount
      accountsValidation ==
        validateAccountsExist(debitAccount, creditAccount, parsedData)
      currencyValidation ==
        validateCurrencyMatch(debitAccount, creditAccount, parsedData.currency)
      sameAccountValidation ==
        validateDifferentAccounts(parsedData.debitAccount, parsedData.creditAccount)
      fundsValidation == validateSufficientFunds(debitAccount, parsedData.amount)
      statusInfo == determineTransactionStatus(parsedData.executeBy)
  IN
  IF ~accountsValidation.valid THEN Spread(parsedData, accountsValidation)
  ELSE IF ~currencyValidation.valid
  THEN buildErrorResponse(parsedData, currencyValidation, relevant.accounts)
  ELSE IF ~fundsValidation.valid
  THEN buildErrorResponse(parsedData, fundsValidation, relevant.accounts)
  ELSE IF ~sameAccountValidation.valid
  THEN buildErrorResponse(parsedData, sameAccountValidation, relevant.accounts)
  ELSE buildSuccessResponse(parsedData, statusInfo, relevant.accounts)

processBusinessRules(parsedData, allAccounts) ==
  LET relevant == getRelevantAccounts(allAccounts, parsedData.debitAccount,
                                      parsedData.creditAccount)
      debitAccount == relevant.debitAccount
      creditAccount == relevant.creditAccount
      accountsValidation ==
        validateAccountsExist(debitAccount, creditAccount, parsedData)
      currencyValidation ==
        validateCurrencyMatch(debitAccount, creditAccount, parsedData.currency)
      sameAccountValidation ==
        validateDifferentAccounts(parsedData.debitAccount, parsedData.creditAccount)
      fundsValidation == validateSufficientFunds(debitAccount, parsedData.amount)
      statusInfo == determineTransactionStatus(parsedData.executeBy)
  IN
  IF ~accountsValidation.valid THEN Spread(parsedData, accountsValidation)
  ELSE IF ~currencyValidation.valid
  THEN buildErrorResponse(parsedData, currencyValidation, relevant.accounts)
  ELSE IF ~sameAccountValidation.valid
  THEN buildErrorResponse(parsedData, sameAccountValidation, relevant.accounts)
  ELSE IF ~fundsValidation.valid
  THEN buildErrorResponse(parsedData, fundsValidation, relevant.accounts)
  ELSE buildSuccessResponse(parsedData, statusInfo, relevant.accounts)

\* The accounts a parse failure reports: every supplied account whose id is one
\* of the two account tokens, in the order supplied.
candidateAccounts(type, tokens, accts) ==
  LET positions == extractTokenPositions(type, tokens)
      debitId == IF type = DEBIT THEN positions.fromAccount ELSE positions.toAccount
      creditId == IF type = DEBIT THEN positions.toAccount ELSE positions.fromAccount
      matching == SelectSeq(accts, LAMBDA account :
                              account.id = debitId \/ account.id = creditId)
  IN [k \in 1..Len(matching) |-> createAccountSnapshot(matching[k])]

parseInstruction(serviceData) ==
  LET instr == trim(serviceData.instruction)
      accts == serviceData.accounts
      tokens == tokenize(instr)
      uppercase == uppercaseTokens(tokens)
      parseResult == parseInstructionTokens(tokens, uppercase)
  IN
  IF Len(instr) = 0 THEN buildUnparseableResponse
  ELSE IF Len(tokens) = 0 THEN buildUnparseableResponse
  ELSE IF ~parseResult.valid
  THEN IF "type" \notin DOMAIN parseResult THEN buildUnparseableResponse
       ELSE buildErrorResponse(parseResult, parseResult.error,
                               candidateAccounts(parseResult.type, tokens, accts))
  ELSE processBusinessRules(parseResult, accts)

(***************************************************************************)
(* The requests the engine is driven with: the payload shape of            *)
(* VALIDATION_SPEC, { accounts[] {id, balance, currency}, instruction }.   *)
(***************************************************************************)
MaxAccounts == 2

A1 == <<"A", "1">>
A2 == <<"A", "2">>
A3 == <<"A", "3">>

Date1 == <<"2", "0", "2", "5", "-", "0", "1", "-", "0", "9">>
Date2 == <<"2", "0", "2", "5", "-", "0", "1", "-", "1", "0">>

Todays == {Date1, Date2}

usd == <<"u", "s", "d">>
EUR == <<"E", "U", "R">>

\* Two ids, each with a funded and a short balance and with supported,
\* lower-case and unsupported currencies.
Accounts ==
  { [id |-> A1, balance |-> 500, currency |-> NGN],
    [id |-> A1, balance |-> 50, currency |-> <<"n", "g", "n">>],
    [id |-> A1, balance |-> 500, currency |-> EUR],
    [id |-> A2, balance |-> 50, currency |-> NGN],
    [id |-> A2, balance |-> 500, currency |-> usd],
    [id |-> A2, balance |-> 50, currency |-> EUR] }

RECURSIVE SeqsUpTo(_, _)
SeqsUpTo(S, n) ==
  IF n = 0 THEN {<<>>}
  ELSE LET shorter == SeqsUpTo(S, n - 1)
       IN shorter \cup {Append(q, x) : q \in {r \in shorter : Len(r) = n - 1}, x \in S}

AccountLists == SeqsUpTo(Accounts, MaxAccounts)

\* The instruction string of a token list: the tokens joined by single spaces.
RECURSIVE Sentence(_)
Sentence(words) ==
  IF words = <<>> THEN <<>>
  ELSE IF Len(words) = 1 THEN words[1]
  ELSE words[1] \o <<" ">> \o Sentence(Tail(words))

DebitWords(amount, currency, from, to) ==
  <<DEBIT, amount, currency, FROM, ACCOUNT, from, FOR, CREDIT, TO, ACCOUNT, to>>

CreditWords(amount, currency, to, from) ==
  <<CREDIT, amount, currency, TO, ACCOUNT, to, FOR, DEBIT, FROM, ACCOUNT, from>>

Amount50 == <<"5", "0">>
Amount100 == <<"1", "0", "0">>

\* Instructions that follow the grammar, with and without a date clause.
GrammarWords ==
  LET heads ==
        {DebitWords(a, c, x, y) :
           a \in {Amount50, Amount100}, c \in {NGN},
           x \in {A1, A2}, y \in {A1, A2, A3}}
        \cup
        {CreditWords(a, c, x, y) :
           a \in {Amount50, Amount100}, c \in {NGN},
           x \in {A1, A2}, y \in {A1, A2, A3}}
      tails == {<<>>, <<ON, Date1>>, <<<<"o", "n">>, Date2>>}
  IN {h \o t : h \in heads, t \in tails}

\* Instructions that break the grammar or a field format, one way each.
BrokenWords ==
  LET debit == DebitWords(Amount100, NGN, A1, A2)
      credit == CreditWords(Amount100, NGN, A1, A2)
      at == <<"A", "T">>
  IN { <<>>,
       <<<<"S", "E", "N", "D">>>> \o Tail(debit),
       [debit EXCEPT ![4] = <<"F", "O", "R", "M">>],
       [debit EXCEPT ![4] = <<"F", "R", "O">>],
       [credit EXCEPT ![9] = <<"F", "R", "O", "M", "S">>],
       [debit EXCEPT ![4] = TO, ![9] = FROM],
       SubSeq(debit, 1, 9),
       SubSeq(debit, 1, 10),
       SubSeq([credit EXCEPT ![4] = FROM], 1, 8),
       <<DEBIT>>,
       [debit EXCEPT ![2] = <<"0">>],
       [debit EXCEPT ![2] = <<"-", "5">>],
       [debit EXCEPT ![2] = <<"1", ".", "5">>],
       [credit EXCEPT ![2] = <<"1", "0", "x">>],
       [debit EXCEPT ![3] = EUR],
       [debit EXCEPT ![3] = usd],
       [credit EXCEPT ![3] = usd, ![6] = A2],
       [debit EXCEPT ![6] = <<"A", "#">>],
       [credit EXCEPT ![11] = <<"A", "_", "2">>],
       debit \o <<ON>>,
       debit \o <<at>>,
       debit \o <<at, Date2>>,
       credit \o <<at, Date1>>,
       debit \o <<ON, Date2, A1>>,
       debit \o <<ON, <<"2", "0", "2", "4", "-", "0", "2", "-", "3", "0">>>>,
       debit \o <<ON, <<"2", "0", "2", "5", "-", "1", "3", "-", "0", "1">>>>,
       debit \o <<ON, <<"2", "0", "2", "5", "0", "1", "0", "1">>>>,
       debit \o <<ON, <<"0", "0", "5", "0", "-", "0", "1", "-", "0", "1">>>> }

Instructions ==
  {Sentence(w) : w \in GrammarWords \cup BrokenWords}
  \cup { <<" ", " ">>,
         <<" ">> \o Sentence(DebitWords(Amount100, NGN, A1, A2)) \o <<" ">>,
         Sentence(<<DEBIT, Amount100>>) \o <<" ", " ">>
           \o Sentence(Tail(Tail(DebitWords(Amount100, NGN, A1, A2)))),
         Sentence(uppercaseTokens(DebitWords(Amount50, NGN, A2, A1)))
           \o <<" ">> \o Sentence(<<ON, Date2>>),
         Sentence([k \in 1..11 |->
                     LET w == CreditWords(Amount50, NGN, A1, A2)[k]
                     IN IF k \in {6, 11} THEN w
                        ELSE [i \in 1..Len(w) |->
                                IF CharLeq("A", w[i]) /\ CharLeq(w[i], "Z")
                                THEN Ascii[CharCode(w[i]) + 32 - 31] ELSE w[i]]]) }

NoResponse == [status |-> "none"]

(***************************************************************************)
(* The endpoint: a request is received, parseInstruction runs on its body, *)
(* the response is returned; the UTC date may change between requests.     *)
(***************************************************************************)
Init ==
  /\ pc = "idle"
  /\ instruction = <<>>
  /\ accounts = <<>>
  /\ today \in Todays
  /\ reqTokens = <<>>
  /\ reqParse = [valid |-> FALSE]
  /\ response = NoResponse
  /\ strA = <<>>
  /\ strB = <<>>
  /\ distance = -1

Receive ==
  /\ pc = "idle"
  /\ \E instr \in Instructions, accts \in AccountLists :
       /\ instruction' = instr
       /\ accounts' = accts
  /\ pc' = "received"
  /\ UNCHANGED <<today, reqTokens, reqParse, response>>
  /\ UNCHANGED distanceVars

Handle ==
  /\ pc = "received"
  /\ reqTokens' = tokenize(trim(instruction))
  /\ reqParse' = parseInstructionTokens(reqTokens', uppercaseTokens(reqTokens'))
  /\ response' = parseInstruction([instruction |-> instruction, accounts |-> accounts])
  /\ pc' = "responded"
  /\ UNCHANGED <<instruction, accounts, today>>
  /\ UNCHANGED distanceVars

Reply ==
  /\ pc = "responded"
  /\ pc' = "idle"
  /\ instruction' = <<>>
  /\ accounts' = <<>>
  /\ reqTokens' = <<>>
  /\ reqParse' = [valid |-> FALSE]
  /\ response' = NoResponse
  /\ UNCHANGED today
  /\ UNCHANGED distanceVars

MidnightUTC ==
  /\ pc = "idle"
  /\ \E next \in Todays : StrLess(today, next) /\ today' = next
  /\ UNCHANGED <<instruction, accounts, reqTokens, reqParse, response, pc>>
  /\ UNCHANGED distanceVars

Next == Receive \/ Handle \/ Reply \/ MidnightUTC

Spec == Init /\ [][Next]_vars

(***************************************************************************)
(* levenshteinDistance on its own: the two arguments grow a character at   *)
(* a time over a small alphabet up to a bounded length, and the function   *)
(* is called on each pair; the engine stands idle.                         *)
(***************************************************************************)
MaxStrLen == 3

DistanceAlphabet == {"a", "b", "c"}

DistanceInit ==
  /\ pc = "idle"
  /\ instruction = <<>>
  /\ accounts = <<>>
  /\ today = Date1
  /\ reqTokens = <<>>
  /\ reqParse = [valid |-> FALSE]
  /\ response = NoResponse
  /\ strA = <<>>
  /\ strB = <<>>
  /\ distance = -1

ExtendA ==
  /\ Len(strA) < MaxStrLen
  /\ \E c \in DistanceAlphabet : strA' = Append(strA, c)
  /\ distance' = -1
  /\ UNCHANGED strB
  /\ UNCHANGED engineVars

ExtendB ==
  /\ Len(strB) < MaxStrLen
  /\ \E c \in DistanceAlphabet : strB' = Append(strB, c)
  /\ distance' = -1
  /\ UNCHANGED strA
  /\ UNCHANGED engineVars

CallDistance ==
  /\ distance = -1
  /\ distance' = levenshteinDistance(strA, strB)
  /\ UNCHANGED <<strA, strB>>
  /\ UNCHANGED engineVars

DistanceNext == ExtendA \/ ExtendB \/ CallDistance

DistanceSpec == DistanceInit /\ [][DistanceNext]_vars

(***************************************************************************)
(* Vocabulary of the properties below: the request the response answers,   *)
(* its tokens and its parse, and the accounts supplied with it.            *)
(***************************************************************************)
Responded == pc = "responded"

Tokens == reqTokens

Parsed == reqParse

Supplied(id) == \E i \in 1..Len(accounts) : accounts[i].id = id

\* The first supplied account with this id.
FirstSupplied(id) ==
  accounts[CHOOSE i \in 1..Len(accounts) :
             /\ accounts[i].id = id
             /\ \A k \in 1..(i - 1) : accounts[k].id # id]

SuppliedCurrency(id) == toUpperCase(FirstSupplied(id).currency)

BothSupplied == Supplied(Parsed.debitAccount) /\ Supplied(Parsed.creditAccount)

CurrenciesAgree ==
  /\ SuppliedCurrency(Parsed.debitAccount) = SuppliedCurrency(Parsed.creditAccount)
  /\ SuppliedCurrency(Parsed.debitAccount) \in ALLOWED_CURRENCIES
  /\ SuppliedCurrency(Parsed.debitAccount) = Parsed.currency

DistinctAccounts == Parsed.debitAccount # Parsed.creditAccount

EnoughFunds == FirstSupplied(Parsed.debitAccount).balance >= Parsed.amount

\* A parsed instruction that passes the four business rules.
Transferable ==
  /\ Parsed.valid
  /\ BothSupplied
  /\ CurrenciesAgree
  /\ DistinctAccounts
  /\ EnoughFunds

Snapshots(id) == SelectSeq(response.accounts, LAMBDA snap : snap.id = id)

RECURSIVE SumBalance(_)
SumBalance(snaps) ==
  IF snaps = <<>> THEN 0 ELSE Head(snaps).balance + SumBalance(Tail(snaps))

RECURSIVE SumBefore(_)
SumBefore(snaps) ==
  IF snaps = <<>> THEN 0 ELSE Head(snaps).balance_before + SumBefore(Tail(snaps))

\* The balance deltas of an applied transfer, against the supplied balances.
DeltasApplied ==
  /\ Len(response.accounts) = 2
  /\ Len(Snapshots(Parsed.debitAccount)) = 1
  /\ Len(Snapshots(Parsed.creditAccount)) = 1
  /\ LET debit == Snapshots(Parsed.debitAccount)[1]
         credit == Snapshots(Parsed.creditAccount)[1]
     IN /\ debit.balance_before = FirstSupplied(Parsed.debitAccount).balance
        /\ credit.balance_before = FirstSupplied(Parsed.creditAccount).balance
        /\ debit.balance = debit.balance_before - Parsed.amount
        /\ credit.balance = credit.balance_before + Parsed.amount

BalancesUntouched ==
  \A k \in 1..Len(response.accounts) :
    response.accounts[k].balance = response.accounts[k].balance_before

(***************************************************************************)
(* C1: an instruction that parses with no execution date, whose debit and  *)
(* credit accounts are both supplied, distinct, in the instruction's       *)
(* currency, and whose debit balance is at least the amount, is answered   *)
(* 'successful' with AP00; the debit snapshot loses the amount, the credit *)
(* snapshot gains it, and the returned balances sum to the balances        *)
(* before. Debit and credit are the parsed instruction's accounts.         *)
(***************************************************************************)
C1_ImmediateTransferApplied ==
  (Responded /\ Transferable /\ Parsed.executeBy = Null) =>
    /\ response.status = "successful"
    /\ response.status_code = "AP00"
    /\ DeltasApplied
    /\ SumBalance(response.accounts) = SumBefore(response.accounts)

C1_Witness ==
  /\ Responded
  /\ Transferable
  /\ Parsed.executeBy = Null
  /\ response.status = "successful"
  /\ FirstSupplied(Parsed.debitAccount).balance = Parsed.amount

(***************************************************************************)
(* C2: for both instruction types the account named after FROM ACCOUNT is  *)
(* the debit account and the account named after TO ACCOUNT is the credit  *)
(* account: a successful CREDIT instruction answers with debit_account =   *)
(* token 10 and credit_account = token 5, token 10's balance falls by the  *)
(* amount and token 5's balance rises by it; a DEBIT instruction has       *)
(* debit_account = token 5 and credit_account = token 10.                  *)
(***************************************************************************)
FromAccountToken == IF Parsed.type = DEBIT THEN At(Tokens, 5) ELSE At(Tokens, 10)

ToAccountToken == IF Parsed.type = DEBIT THEN At(Tokens, 10) ELSE At(Tokens, 5)

C2_FromIsDebitToIsCredit ==
  (Responded /\ Parsed.valid /\ response.status = "successful") =>
    /\ response.debit_account = FromAccountToken
    /\ response.credit_account = ToAccountToken
    /\ \A k \in 1..Len(response.accounts) :
         LET snap == response.accounts[k] IN
         /\ snap.id = FromAccountToken =>
              snap.balance = snap.balance_before - Parsed.amount
         /\ snap.id = ToAccountToken =>
              snap.balance = snap.balance_before + Parsed.amount

(***************************************************************************)
(* C3: an instruction that parses and passes the existence, currency,      *)
(* self-transfer and sufficient-funds rules is answered 'pending' with     *)
(* AP02 and untouched balances when its execution date is strictly after   *)
(* today's UTC date, and 'successful' with AP00 and the balance deltas     *)
(* applied when the date is absent, today, or in the past.                 *)
(***************************************************************************)
FutureDated == Parsed.executeBy # Null /\ StrLess(today, Parsed.executeBy)

C3_PendingOnlyWhenFutureDated ==
  (Responded /\ Transferable) =>
    IF FutureDated
    THEN /\ response.status = "pending"
         /\ response.status_code = "AP02"
         /\ Len(response.accounts) = 2
         /\ BalancesUntouched
    ELSE /\ response.status = "successful"
         /\ response.status_code = "AP00"
         /\ DeltasApplied

C3_Witness ==
  /\ Responded
  /\ Transferable
  /\ FutureDated
  /\ response.status = "pending"

(***************************************************************************)
(* C4: whatever stage produced it, a 'failed' or 'pending' response        *)
(* returns every snapshot with balance equal to balance_before; a balance  *)
(* differs from balance_before only in a 'successful' response.            *)
(***************************************************************************)
C4_BalancesChangeOnlyOnSuccess ==
  (Responded /\ response.status \in {"failed", "pending"}) => BalancesUntouched

C4_Witness ==
  /\ Responded
  /\ response.status = "failed"
  /\ response.status_code = "AC01"
  /\ Len(response.accounts) = 2
  /\ BalancesUntouched

(***************************************************************************)
(* C5 (as stated): 'DEBIT 100 NGN FORM ACCOUNT A1 FOR CREDIT TO ACCOUNT    *)
(* A2' is rejected with status 'failed', code SY02, and a status_reason    *)
(* that carries a "did you mean 'FROM'" suggestion.                        *)
(***************************************************************************)
FORM == <<"F", "O", "R", "M">>
FRO == <<"F", "R", "O">>

FormInstruction == Sentence([DebitWords(Amount100, NGN, A1, A2) EXCEPT ![4] = FORM])

FroInstruction == Sentence([DebitWords(Amount100, NGN, A1, A2) EXCEPT ![4] = FRO])

HasSuggestion(message, keyword) ==
  \E i \in 1..(Len(message) - 1) :
    message[i] = Lit(" (did you mean '") /\ message[i + 1] = Str(keyword)

ReportsMismatch(message, expected, found) ==
  \E i \in 1..(Len(message) - 3) :
    /\ message[i] = Lit("expected '")
    /\ message[i + 1] = Str(expected)
    /\ message[i + 2] = Lit("' but found '")
    /\ message[i + 3] = Str(found)

C5_FormGetsSuggestion ==
  (Responded /\ instruction = FormInstruction) =>
    /\ response.status = "failed"
    /\ response.status_code = "SY02"
    /\ HasSuggestion(response.status_reason, FROM)

(***************************************************************************)
(* C5 (amended): the FORM instruction is rejected with status 'failed',    *)
(* code SY02, and a status_reason that reports "expected 'FROM' but found  *)
(* 'FORM'" with no suggestion, FORM being at edit distance 2 from FROM;    *)
(* the suggestion is appended for a token within distance 1, such as FRO.  *)
(***************************************************************************)
C5_FormRejectedWithoutSuggestion ==
  /\ (Responded /\ instruction = FormInstruction) =>
       /\ response.status = "failed"
       /\ response.status_code = "SY02"
       /\ ReportsMismatch(response.status_reason, FROM, FORM)
       /\ ~HasSuggestion(response.status_reason, FROM)
  /\ (Responded /\ instruction = FroInstruction) =>
       /\ response.status = "failed"
       /\ response.status_code = "SY02"
       /\ HasSuggestion(response.status_reason, FROM)

C5_Witness ==
  /\ Responded
  /\ instruction = FormInstruction
  /\ response.status_code = "SY02"
  /\ levenshteinDistance(FROM, At(uppercaseTokens(Tokens), 3)) = 2

(***************************************************************************)
(* C6: every response, on every path including account-not-found, carries  *)
(* exactly the fields type, amount, currency, debit_account,               *)
(* credit_account, execute_by, status, status_reason, status_code and      *)
(* accounts, and echoes the parsed instruction's debit and credit ids and  *)
(* execution date under debit_account, credit_account and execute_by.      *)
(***************************************************************************)
ResponseFields ==
  { "type", "amount", "currency", "debit_account", "credit_account", "execute_by",
    "status", "status_reason", "status_code", "accounts" }

C6_ResponseShape ==
  Responded =>
    /\ DOMAIN response = ResponseFields
    /\ Parsed.valid =>
         /\ response.debit_account = Parsed.debitAccount
         /\ response.credit_account = Parsed.creditAccount
         /\ response.execute_by = Parsed.executeBy

(***************************************************************************)
(* C7: when both accounts are supplied with one common currency that is    *)
(* not NGN, USD, GBP or GHS, the response is 'failed' with CU02; CU01 is   *)
(* returned only when the two accounts' currencies differ or a supported   *)
(* common currency differs from the instruction's currency.                *)
(***************************************************************************)
C7_UnsupportedCommonCurrencyIsCU02 ==
  (Responded /\ Parsed.valid /\ BothSupplied) =>
    LET debitCurrency == SuppliedCurrency(Parsed.debitAccount)
        creditCurrency == SuppliedCurrency(Parsed.creditAccount)
    IN /\ (debitCurrency = creditCurrency /\ debitCurrency \notin ALLOWED_CURRENCIES) =>
            /\ response.status = "failed"
            /\ response.status_code = "CU02"
       /\ response.status_code = "CU01" =>
            \/ debitCurrency # creditCurrency
            \/ /\ debitCurrency \in ALLOWED_CURRENCIES
               /\ debitCurrency # Parsed.currency

(***************************************************************************)
(* C8: a parsed instruction that breaks several business rules is answered *)
(* with the code of the first broken rule in the order existence (AC03),   *)
(* currency agreement (CU01 or CU02), self-transfer (AC02), sufficient     *)
(* funds (AC01); AP00 or AP02 is reached only when no rule is broken.      *)
(***************************************************************************)
C8_FirstBrokenRuleWins ==
  (Responded /\ Parsed.valid) =>
    IF ~BothSupplied THEN response.status_code = "AC03"
    ELSE IF ~CurrenciesAgree THEN response.status_code \in {"CU01", "CU02"}
    ELSE IF ~DistinctAccounts THEN response.status_code = "AC02"
    ELSE IF ~EnoughFunds THEN response.status_code = "AC01"
    ELSE response.status_code \in {"AP00", "AP02"}

C8_Witness ==
  /\ Responded
  /\ Parsed.valid
  /\ BothSupplied
  /\ CurrenciesAgree
  /\ ~DistinctAccounts
  /\ ~EnoughFunds
  /\ response.status_code = "AC02"

(***************************************************************************)
(* C9: an instruction of 13 or more tokens that passes keyword validation, *)
(* whose token 11 is not ON (case-insensitively) and whose token 12 is     *)
(* date-shaped, is answered 'failed' with DT01; SY01 for the missing ON is *)
(* returned only when token 11 is not ON and no token sits at the date     *)
(* position.                                                               *)
(***************************************************************************)
DateShaped(token) ==
  /\ Len(token) = 10
  /\ token[5] = "-"
  /\ token[8] = "-"
  /\ \A i \in {1, 2, 3, 4, 6, 7, 9, 10} : IsDigit(token[i])

KeywordsPass ==
  /\ Len(Tokens) > 0
  /\ toUpperCase(Tokens[1]) \in TRANSACTION_TYPES
  /\ \A k \in 1..6 :
       LET p == INSTRUCTION_PATTERNS(toUpperCase(Tokens[1]))[k] IN
       Len(Tokens) > p.idx /\ toUpperCase(At(Tokens, p.idx)) = p.keyword

TokenElevenIsOn == Len(Tokens) > 11 /\ toUpperCase(At(Tokens, 11)) = ON

C9_DateWithoutOnIsDT01 ==
  (Responded /\ KeywordsPass /\ Len(Tokens) >= 12 /\ ~TokenElevenIsOn) =>
    /\ (Len(Tokens) >= 13 /\ DateShaped(At(Tokens, 12))) =>
         /\ response.status = "failed"
         /\ response.status_code = "DT01"
    /\ response.status_code = "SY01" => Len(Tokens) = 12

(***************************************************************************)
(* C10: for every supplied account list, repeated ids included, and every  *)
(* verdict, parse failures included, the accounts array holds at most the  *)
(* debit account's snapshot and, if distinct, the credit account's: never  *)
(* more than two entries, and no account id twice.                         *)
(***************************************************************************)
C10_AtMostDebitAndCreditSnapshot ==
  Responded =>
    /\ Len(response.accounts) <= 2
    /\ \A i, k \in 1..Len(response.accounts) :
         i # k => response.accounts[i].id # response.accounts[k].id

(***************************************************************************)
(* C11: an instruction that is empty, whitespace-only, or whose first      *)
(* token upper-cased is neither DEBIT nor CREDIT is answered with the      *)
(* unparseable response whatever the remaining tokens and the supplied     *)
(* accounts: status 'failed', code SY03, type, amount, currency,           *)
(* debit_account, credit_account and execute_by all null, no accounts.     *)
(***************************************************************************)
Blank == \A i \in 1..Len(instruction) : instruction[i] = " "

UnrecognizedType ==
  /\ ~Blank
  /\ Len(Tokens) > 0
  /\ toUpperCase(Tokens[1]) # DEBIT
  /\ toUpperCase(Tokens[1]) # CREDIT

C11_UnparseableResponse ==
  (Responded /\ (Blank \/ UnrecognizedType)) =>
    /\ DOMAIN response = ResponseFields
    /\ response.status = "failed"
    /\ response.status_code = "SY03"
    /\ response.type = Null
    /\ response.amount = Null
    /\ response.currency = Null
    /\ response.debit_account = Null
    /\ response.credit_account = Null
    /\ response.execute_by = Null
    /\ response.accounts = <<>>

C11_Witness ==
  /\ Responded
  /\ UnrecognizedType
  /\ Len(Tokens) = 11
  /\ \E i \in 1..Len(accounts) : accounts[i].id = At(Tokens, 5)
  /\ response.status_code = "SY03"
  /\ response.accounts = <<>>

(***************************************************************************)
(* C12: for a recognized type, SY01 is reported whenever at least one of   *)
(* the six grammar keyword positions lies beyond the end of the tokens,    *)
(* even if a present position is mismatched; SY02 is reported only when    *)
(* all six positions are present and at least one differs from its keyword *)
(* case-insensitively; six case-insensitive matches never yield SY02.      *)
(***************************************************************************)
RecognizedType == Len(Tokens) > 0 /\ toUpperCase(Tokens[1]) \in TRANSACTION_TYPES

Pattern == INSTRUCTION_PATTERNS(toUpperCase(Tokens[1]))

SomeKeywordMissing == \E k \in 1..6 : Len(Tokens) <= Pattern[k].idx

SomeKeywordMismatched ==
  \E k \in 1..6 :
    /\ Len(Tokens) > Pattern[k].idx
    /\ toUpperCase(At(Tokens, Pattern[k].idx)) # Pattern[k].keyword

C12_MissingBeforeMismatched ==
  (Responded /\ RecognizedType) =>
    /\ SomeKeywordMissing => response.status_code = "SY01"
    /\ response.status_code = "SY02" => (~SomeKeywordMissing /\ SomeKeywordMismatched)
    /\ (~SomeKeywordMissing /\ SomeKeywordMismatched) => response.status_code = "SY02"

C12_Witness ==
  /\ Responded
  /\ RecognizedType
  /\ SomeKeywordMissing
  /\ SomeKeywordMismatched
  /\ response.status_code = "SY01"

(***************************************************************************)
(* C13: for all strings a and b over the alphabet up to the length bound,  *)
(* levenshteinDistance(a, b) equals levenshteinDistance(b, a), is 0 if and *)
(* only if a equals b, is the other string's length when one string is     *)
(* empty, and is at most 1 exactly when a equals b or one substitution,    *)
(* insertion or deletion of a character turns a into b; swapping two       *)
(* adjacent distinct characters gives distance 2.                          *)
(***************************************************************************)
Without(s, i) == SubSeq(s, 1, i - 1) \o SubSeq(s, i + 1, Len(s))

OneSubstitution(s, t) ==
  /\ Len(s) = Len(t)
  /\ Cardinality({i \in 1..Len(s) : s[i] # t[i]}) = 1

OneInsertion(s, t) ==
  /\ Len(t) = Len(s) + 1
  /\ \E i \in 1..Len(t) : Without(t, i) = s

OneDeletion(s, t) == OneInsertion(t, s)

AdjacentSwap(s, t) ==
  \E i \in 1..(Len(s) - 1) :
    /\ s[i] # s[i + 1]
    /\ t = [s EXCEPT ![i] = s[i + 1], ![i + 1] = s[i]]

C13_EditDistanceLaws ==
  distance # -1 =>
    /\ distance = levenshteinDistance(strB, strA)
    /\ (distance = 0) <=> (strA = strB)
    /\ strA = <<>> => distance = Len(strB)
    /\ strB = <<>> => distance = Len(strA)
    /\ (distance <= 1) <=>
         \/ strA = strB
         \/ OneSubstitution(strA, strB)
         \/ OneInsertion(strA, strB)
         \/ OneDeletion(strA, strB)
    /\ AdjacentSwap(strA, strB) => distance = 2

C13_Witness ==
  /\ distance = 2
  /\ Len(strA) = 3
  /\ AdjacentSwap(strA, strB)

====
